---- MODULE Spec2Model ----
(***************************************************************************)
(* A model of the chat bot in src/app.py: the allowed-users gate, the      *)
(* /checkreleases, /apps and /logs command handlers, the callback handler  *)
(* that drives suspend -> unsuspend on a HelmRelease, and the classifier   *)
(* that get_unhealthy_helmreleases applies to the cluster's listing.       *)
(*                                                                         *)
(* Strings that are split or concatenated are sequences of atoms: an atom  *)
(* is ":" or a chunk of characters holding no ":", so "toggle:ns1:web" is  *)
(* <<"toggle", ":", "ns1", ":", "web">> and str.split(":") is Split.       *)
(***************************************************************************)
EXTENDS Integers, Sequences, FiniteSets, TLC

\* ------------------------------------------------------------------ bounds
\* button_callback invocations in one behaviour
MaxInv == 2
\* status updates the controller makes in one behaviour
MaxEnv == 1
\* command handler runs in one behaviour
MaxCmd == 1
\* condition entries carried by one listing (all releases together)
MaxTotalConds == 3
\* releases in one listing
MaxList == 2

\* ----------------------------------------------------------------- strings
Sep == ":"

Min(S) == CHOOSE x \in S : \A y \in S : x <= y

\* str.split(sep): one part per separator, plus one
RECURSIVE SplitOn(_, _)
SplitOn(s, sep) ==
    LET seps == {i \in 1..Len(s) : s[i] = sep}
    IN  IF seps = {} THEN <<s>>
        ELSE LET i == Min(seps)
             IN  <<SubSeq(s, 1, i - 1)>> \o SplitOn(SubSeq(s, i + 1, Len(s)), sep)

\* query.data.split(":") (src/app.py:120, 436)
Split(s) == SplitOn(s, Sep)

ToggleToken_Swapped(ns, name) == <<"toggle", ":">> \o name \o <<":">> \o ns

\* f"toggle:{release['namespace']}:{release['name']}"
ToggleToken(ns, name) == <<"toggle", Sep>> \o ns \o <<Sep>> \o name

\* ------------------------------------------------------------ configuration
\* ALLOWED_USERS, parsed from the environment; user 2 is not in the list
ALLOWED_USERS == {1}
Users == {1, 2}

\* APP_LOGS_MAP, parsed from the environment
APP_LOGS_MAP == {<<"api">>}

\* ---------------------------------------------------------------- conditions
\* A key the dict does not hold
Missing == "<missing>"

Cond(t, s, r, m) ==
    [type |-> t, status |-> s, reason |-> r, message |-> m,
     lastTransitionTime |-> IF m = Missing THEN Missing ELSE "t0"]

\* The condition entries a listing is drawn from: the three types the code
\* looks at, each status, and entries with a key missing
Conds ==
    { Cond("Ready", "True", "Succeeded", "ok"),
      Cond("Ready", "False", "Failed", "boom"),
      Cond("Ready", "Unknown", "Progressing", "wait"),
      Cond("Ready", "False", "Failed", Missing),
      Cond("Ready", Missing, "Failed", "boom"),
      Cond("Reconciling", "True", "Progressing", "run"),
      Cond("Reconciling", "True", "Other", "run"),
      Cond("Reconciling", "False", "Progressing", "run"),
      Cond("Reconciling", "True", Missing, "run"),
      Cond("Reconciling", Missing, "Progressing", "run"),
      Cond("Stalled", "True", "Failed", "stuck"),
      Cond("Stalled", "False", "Failed", "stuck"),
      Cond("Stalled", Missing, "Failed", "stuck"),
      Cond(Missing, "True", "Progressing", "x") }

\* c['key'] raises KeyError when the key is missing
HasKey(v) == v # Missing

\* What a lookup in the condition list gives besides an index
None == 0
KeyError == -1

\* next((c for c in conditions if <test>), None) over n entries, given the
\* indices the test accepts (hits) and those it raises on (bad): the first
\* hit, None, or KeyError when the test raises on an entry before the first
\* hit.  The generator stops at its first hit: later entries are not looked at.
NextMatch(n, hits, bad) ==
    LET h == IF hits = {} THEN n + 1 ELSE Min(hits)
    IN  IF \E b \in bad : b < h THEN KeyError
        ELSE IF hits = {} THEN None ELSE h

\* next((c for c in conditions if c['type'] == t), None)
NextOfType(conditions, t) ==
    LET n == Len(conditions)
    IN  NextMatch(n,
                  {i \in 1..n : conditions[i].type = t},
                  {i \in 1..n : ~HasKey(conditions[i].type)})

\* next((c for c in conditions
\*       if c['type'] == 'Stalled' and c['status'] == 'True'), None)
NextStalled(conditions) ==
    LET n == Len(conditions)
    IN  NextMatch(n,
                  {i \in 1..n : /\ conditions[i].type = "Stalled"
                                /\ conditions[i].status = "True"},
                  {i \in 1..n : \/ ~HasKey(conditions[i].type)
                                \/ /\ conditions[i].type = "Stalled"
                                   /\ ~HasKey(conditions[i].status)})

NotTrue_OnlyFalse(status) == status = "False"

\* ready_condition['status'] != 'True'
NotTrue(status) == status # "True"

\* reconciling_condition and reconciling_condition['status'] == 'True' and
\* reconciling_condition['reason'] == 'Progressing', for the entry at index rc
\* (None when there is no Reconciling entry): "yes", "no" or "KeyError"
IsReconciling(conditions, rc) ==
    IF rc = None THEN "no"
    ELSE IF ~HasKey(conditions[rc].status) THEN "KeyError"
    ELSE IF conditions[rc].status # "True" THEN "no"
    ELSE IF ~HasKey(conditions[rc].reason) THEN "KeyError"
    ELSE IF conditions[rc].reason = "Progressing" THEN "yes" ELSE "no"

\* dict.get(key, default)
GetOr(v, default) == IF HasKey(v) THEN v ELSE default

\* The loop body of get_unhealthy_helmreleases for one release:
\* [raised, unhealthy, info]
NoInfo ==
    [name |-> <<>>, namespace |-> <<>>, error |-> "", stalled |-> FALSE,
     reconciling |-> FALSE, last_transition |-> ""]

Raised == [raised |-> TRUE, unhealthy |-> FALSE, info |-> NoInfo]

Skipped == [raised |-> FALSE, unhealthy |-> FALSE, info |-> NoInfo]

Classify(release) ==
    LET conditions == release.conditions
        ready == NextOfType(conditions, "Ready")
        rc    == NextOfType(conditions, "Reconciling")
    IN  IF ready = KeyError \/ rc = KeyError THEN Raised
        ELSE IF ready = None THEN Skipped
        ELSE IF ~HasKey(conditions[ready].status) THEN Raised
        ELSE IF ~NotTrue(conditions[ready].status) THEN Skipped
        ELSE LET stalled == NextStalled(conditions)
                 isrec   == IsReconciling(conditions, rc)
             IN  IF stalled = KeyError \/ isrec = "KeyError" THEN Raised
                 ELSE [raised |-> FALSE, unhealthy |-> TRUE,
                       info |-> [name |-> release.name,
                                 namespace |-> release.namespace,
                                 error |-> GetOr(conditions[ready].message,
                                                 "No error message provided"),
                                 stalled |-> stalled # None,
                                 reconciling |-> isrec = "yes",
                                 last_transition |->
                                     GetOr(conditions[ready].lastTransitionTime,
                                           "Unknown")]]

RECURSIVE Unhealthy_Reversed(_)
Unhealthy_Reversed(items) ==
    IF items = <<>> THEN <<>>
    ELSE LET c == Classify(Head(items))
         IN  Unhealthy_Reversed(Tail(items))
                 \o (IF c.unhealthy THEN <<c.info>> ELSE <<>>)

\* The releases the loop appends, in listing order
RECURSIVE Unhealthy(_)
Unhealthy(items) ==
    IF items = <<>> THEN <<>>
    ELSE LET c == Classify(Head(items))
         IN  (IF c.unhealthy THEN <<c.info>> ELSE <<>>) \o Unhealthy(Tail(items))

\* get_unhealthy_helmreleases on the answer of list_cluster_custom_object:
\* raised when the list call failed or an entry raised (except: print; raise),
\* the infos of the unhealthy releases otherwise
get_unhealthy_helmreleases(listOk, items) ==
    IF ~listOk \/ \E i \in 1..Len(items) : Classify(items[i]).raised
    THEN [raised |-> TRUE, releases |-> <<>>]
    ELSE [raised |-> FALSE, releases |-> Unhealthy(items)]

\* ------------------------------------------------------------------- state
VARIABLES
    lst,       \* a listing list_cluster_custom_object returns (its items)
    lres,      \* what get_unhealthy_helmreleases made of it
    store,     \* the cluster: each HelmRelease's spec.suspend,
               \* metadata.resourceVersion and status.conditions
    inv,       \* the button_callback invocations
    buttons,   \* the callback tokens of the Reconcile buttons sent so far
    calls,     \* every cluster call made, with the user it was made for
    lastCmd,   \* the command handler under way or last run: replies, exception
    envSteps,  \* status updates made by the controller
    cmdRuns,   \* command handler runs
    arg,       \* the argument of a helper function called on its own
    ret        \* what the helper made of it

\* What the bot's handlers leave alone, what the listing leaves alone, and
\* what a helper called on its own leaves alone
lvars == <<lst, lres, arg, ret>>
bvars == <<store, inv, buttons, calls, lastCmd, envSteps, cmdRuns, arg, ret>>
hvars == <<lst, lres, store, inv, buttons, calls, lastCmd, envSteps, cmdRuns>>
vars ==
    <<lst, lres, store, inv, buttons, calls, lastCmd, envSteps, cmdRuns, arg, ret>>

\* ------------------------------------------------------------- the cluster
\* A release is named by <<namespace, name>>
R1 == <<<<"ns1">>, <<"web">>>>
R2 == <<<<"ns2">>, <<"db">>>>
Rels == {R1, R2}
NoRel == <<<<>>, <<>>>>

\* The order in which list_cluster_custom_object returns the releases
StoreOrder == <<R1, R2>>

Release(ns, name, conditions) ==
    [namespace |-> ns, name |-> name, conditions |-> conditions]

\* The status.conditions the controller writes in the bot's runs
NotReadyConds == <<Cond("Ready", "False", "Failed", "boom")>>
ReconcilingConds ==
    <<Cond("Ready", "False", "Failed", "boom"),
      Cond("Reconciling", "True", "Progressing", "run")>>
StatusChoices == {NotReadyConds, ReconcilingConds}

\* helm_releases.get('items', [])
Items ==
    [i \in 1..Len(StoreOrder) |->
        Release(StoreOrder[i][1], StoreOrder[i][2], store[StoreOrder[i]].conditions)]

\* Whether the listing flags release r as reconciling
FlaggedReconciling(r) ==
    LET c == Classify(Release(r[1], r[2], store[r].conditions))
    IN  c.unhealthy /\ c.info.reconciling

\* The store applies a write of spec.suspend: the resource version moves
\* when the object changes
Written(obj, v) ==
    IF obj.suspend = v THEN obj ELSE [obj EXCEPT !.suspend = v, !.rv = @ + 1]

\* ------------------------------------------------------------ authorization
Authorized_Everyone(user_id) == TRUE

\* user_id in ALLOWED_USERS (restricted, restricted_callback)
Authorized(user_id) == user_id \in ALLOWED_USERS

\* ---------------------------------------------------------- button_callback
InvIds == 1..MaxInv

Idle ==
    [pc |-> "idle", user |-> 0, data |-> <<>>, rel |-> NoRel, snap |-> 0,
     sus |-> "none", unsus |-> "none", log |-> <<>>, recAtClick |-> FALSE,
     start |-> FALSE]

\* What an invocation does that its caller and the cluster can observe:
\* an edit_message_text ("msg"), a get_namespaced_custom_object ("get") or a
\* patch_namespaced_custom_object ("patch"), and how it ended: "ok" or the
\* error raised
Event(k, what, rel, res) == [k |-> k, what |-> what, rel |-> rel, res |-> res]

\* A send to the chat goes through or raises
Sent(ok) == IF ok THEN "ok" ELSE "TelegramError"

\* A read of release rel answers, or raises: the release is not there, or
\* the call fails
GetResult(rel, ok) ==
    IF rel \notin Rels THEN "NotFound" ELSE IF ok THEN "ok" ELSE "ApiError"

\* How the network treats a write: the request and its answer go through
\* ("ok"), the request does not reach the store or the store fails it
\* ("down"), or the request reaches the store and the answer does not come
\* back in time ("lost")
Net == {"ok", "down", "lost"}

\* A write answers, or raises: the call fails ("ApiError"), the store refuses
\* the object because its resource version is no longer the one read
\* ("Conflict"), or the store applies it and the call raises all the same
\* because the answer is lost ("Timeout")
PatchResult(rel, snap, net) ==
    IF net = "down" THEN "ApiError"
    ELSE IF store[rel].rv # snap
         THEN (IF net = "ok" THEN "Conflict" ELSE "ApiError")
         ELSE (IF net = "ok" THEN "ok" ELSE "Timeout")

\* Whether the store holds the written object after the call
Applied(res) == res \in {"ok", "Timeout"}

\* if action == "toggle" and len(parts) == 3 / elif action == "logs" and
\* len(parts) == 2: where the handler goes
Dispatch(parts) ==
    IF parts[1] = <<"toggle">> /\ Len(parts) = 3 THEN "suspending"
    ELSE IF parts[1] = <<"logs">> /\ Len(parts) = 2 THEN "logs"
    ELSE "done"

\* namespace = parts[1]; name = parts[2]
Target(parts) ==
    IF Dispatch(parts) = "suspending" THEN <<parts[2], parts[3]>> ELSE NoRel

AfterSuspend_Always(ok) == "unsuspending"

\* if await suspend_release(namespace, name): ... else: ...
AfterSuspend(ok) == IF ok THEN "unsuspending" ELSE "reportSusFail"

\* if await unsuspend_release(namespace, name): ... else: ...
AfterUnsuspend(ok) == IF ok THEN "reportOk" ELSE "reportUnsFail"

SuspendPatchFailed_Retry(i) == [inv[i] EXCEPT !.pc = "susGet"]

\* except Exception as e: print(...); return False (suspend_release)
SuspendPatchFailed(i) ==
    [inv[i] EXCEPT !.sus = "failed", !.pc = AfterSuspend(FALSE)]

Text_SameFailure(pc) ==
    CASE pc = "suspending"    -> "Suspending"
      [] pc = "unsuspending"  -> "Unsuspending"
      [] pc = "reportOk"      -> "Started"
      [] pc = "reportUnsFail" -> "FailedSuspend"
      [] pc = "reportSusFail" -> "FailedSuspend"
      [] pc = "except"        -> "Error"

\* The text each edit_message_text of the toggle branch sends
Text(pc) ==
    CASE pc = "suspending"    -> "Suspending"
      [] pc = "unsuspending"  -> "Unsuspending"
      [] pc = "reportOk"      -> "Started"
      [] pc = "reportUnsFail" -> "FailedUnsuspend"
      [] pc = "reportSusFail" -> "FailedSuspend"
      [] pc = "except"        -> "Error"

\* resource['spec']['suspend'] = True
SuspendBody == TRUE

UnsuspendBody_True == TRUE

\* resource['spec']['suspend'] = False
UnsuspendBody == FALSE

PatchTarget_First(rel) == R1

\* namespace=namespace, name=name of the patch call
PatchTarget(rel) == rel

BoolText(v) == IF v THEN "true" ELSE "false"

\* The callback query arrives: the allowed-users gate, query.answer(), the
\* split of query.data.  An unauthorized user is answered with the refusal
\* and the handler body is not entered.  Neither the refusal of
\* restricted_callback nor the query.answer() of button_callback stands in
\* a try block: a failure of the answer leaves the handler for either user.
Click(i, u, data, answered) ==
    /\ inv[i].pc = "idle"
    /\ IF i = 1 THEN TRUE ELSE inv[i - 1].pc # "idle"
    /\ LET parts == Split(data)
           rel   == Target(parts)
           base  == [inv[i] EXCEPT !.user = u, !.data = data]
       IN  inv' = [inv EXCEPT ![i] =
               IF ~answered THEN [base EXCEPT !.pc = "raised"]
               ELSE IF ~Authorized(u) THEN [base EXCEPT !.pc = "denied"]
               ELSE [base EXCEPT
                       !.pc = Dispatch(parts),
                       !.rel = rel,
                       !.recAtClick = rel \in Rels /\ FlaggedReconciling(rel),
                       !.start = rel \in Rels /\ store[rel].suspend]]
    /\ UNCHANGED <<lvars, store, buttons, calls, lastCmd, envSteps, cmdRuns>>

\* await query.edit_message_text("Suspending ...") / ("Unsuspending ..."):
\* a failed send raises inside the try
Progress(i, ok) ==
    /\ inv[i].pc \in {"suspending", "unsuspending"}
    /\ inv' = [inv EXCEPT ![i] =
           [@ EXCEPT
               !.log = Append(@, Event("msg", Text(inv[i].pc), inv[i].rel, Sent(ok))),
               !.pc = IF ~ok THEN "except"
                      ELSE IF inv[i].pc = "suspending" THEN "susGet" ELSE "unsGet"]]
    /\ UNCHANGED <<lvars, store, buttons, calls, lastCmd, envSteps, cmdRuns>>

\* suspend_release: get_namespaced_custom_object
SuspendGet(i, ok) ==
    /\ inv[i].pc = "susGet"
    /\ LET rel   == inv[i].rel
           res == GetResult(rel, ok)
       IN  /\ inv' = [inv EXCEPT ![i] =
                  IF res = "ok"
                  THEN [@ EXCEPT !.log = Append(@, Event("get", "-", rel, res)),
                                 !.snap = store[rel].rv,
                                 !.pc = "susPatch"]
                  ELSE [@ EXCEPT !.log = Append(@, Event("get", "-", rel, res)),
                                 !.sus = "failed",
                                 !.pc = AfterSuspend(FALSE)]]
           /\ calls' = calls \cup {[user |-> inv[i].user, op |-> "get", rel |-> rel]}
    /\ UNCHANGED <<lvars, store, buttons, lastCmd, envSteps, cmdRuns>>

\* suspend_release: patch_namespaced_custom_object with the object read,
\* spec.suspend set; the store refuses it when the resource version moved
SuspendPatch(i, net) ==
    /\ inv[i].pc = "susPatch"
    /\ LET rel     == PatchTarget(inv[i].rel)
           res     == PatchResult(rel, inv[i].snap, net)
           applied == Applied(res)
           done    == res = "ok"
           ev      == Event("patch", BoolText(SuspendBody), rel, res)
       IN  /\ store' = IF applied
                       THEN [store EXCEPT ![rel] = Written(@, SuspendBody)]
                       ELSE store
           /\ inv' = [inv EXCEPT ![i] =
                  [(IF done
                    THEN [inv[i] EXCEPT !.sus = "ok", !.pc = AfterSuspend(TRUE)]
                    ELSE SuspendPatchFailed(i))
                   EXCEPT !.log = Append(inv[i].log, ev)]]
           /\ calls' = calls \cup {[user |-> inv[i].user, op |-> "patch", rel |-> rel]}
    /\ UNCHANGED <<lvars, buttons, lastCmd, envSteps, cmdRuns>>

UnsuspendRead_Stale(i, rel) == inv[i].snap

\* resource = api.get_namespaced_custom_object(...) of unsuspend_release: the
\* resource version of the object as the store holds it now
UnsuspendRead(i, rel) == store[rel].rv

\* unsuspend_release: get_namespaced_custom_object, a fresh read
UnsuspendGet(i, ok) ==
    /\ inv[i].pc = "unsGet"
    /\ LET rel   == inv[i].rel
           res == GetResult(rel, ok)
       IN  /\ inv' = [inv EXCEPT ![i] =
                  IF res = "ok"
                  THEN [@ EXCEPT !.log = Append(@, Event("get", "-", rel, res)),
                                 !.snap = UnsuspendRead(i, rel),
                                 !.pc = "unsPatch"]
                  ELSE [@ EXCEPT !.log = Append(@, Event("get", "-", rel, res)),
                                 !.unsus = "failed",
                                 !.pc = AfterUnsuspend(FALSE)]]
           /\ calls' = calls \cup {[user |-> inv[i].user, op |-> "get", rel |-> rel]}
    /\ UNCHANGED <<lvars, store, buttons, lastCmd, envSteps, cmdRuns>>

\* unsuspend_release: patch_namespaced_custom_object
UnsuspendPatch(i, net) ==
    /\ inv[i].pc = "unsPatch"
    /\ LET rel     == PatchTarget(inv[i].rel)
           res     == PatchResult(rel, inv[i].snap, net)
           applied == Applied(res)
           done    == res = "ok"
           ev      == Event("patch", BoolText(UnsuspendBody), rel, res)
       IN  /\ store' = IF applied
                       THEN [store EXCEPT ![rel] = Written(@, UnsuspendBody)]
                       ELSE store
           /\ inv' = [inv EXCEPT ![i] =
                  [@ EXCEPT !.log = Append(@, ev),
                            !.unsus = IF done THEN "ok" ELSE "failed",
                            !.pc = AfterUnsuspend(done)]]
           /\ calls' = calls \cup {[user |-> inv[i].user, op |-> "patch", rel |-> rel]}
    /\ UNCHANGED <<lvars, buttons, lastCmd, envSteps, cmdRuns>>

\* The edit_message_text that ends the toggle branch
Report(i, ok) ==
    /\ inv[i].pc \in {"reportOk", "reportUnsFail", "reportSusFail"}
    /\ inv' = [inv EXCEPT ![i] =
           [@ EXCEPT
               !.log = Append(@, Event("msg", Text(inv[i].pc), inv[i].rel, Sent(ok))),
               !.pc = IF ok THEN "done" ELSE "except"]]
    /\ UNCHANGED <<lvars, store, buttons, calls, lastCmd, envSteps, cmdRuns>>

\* The logs branch: one edit_message_text, with the link or without
LogsReply(i, ok) ==
    /\ inv[i].pc = "logs"
    /\ LET app_name == Split(inv[i].data)[2]
           text == IF app_name \in APP_LOGS_MAP THEN "Logs" ELSE "NoLogs"
       IN  inv' = [inv EXCEPT ![i] =
               [@ EXCEPT
                   !.log = Append(@, Event("msg", text, NoRel, Sent(ok))),
                   !.pc = IF ok THEN "done" ELSE "except"]]
    /\ UNCHANGED <<lvars, store, buttons, calls, lastCmd, envSteps, cmdRuns>>

\* except Exception as e: await query.edit_message_text("Error processing
\* action ..."); when this send fails too, the exception leaves the handler
Except(i, ok) ==
    /\ inv[i].pc = "except"
    /\ inv' = [inv EXCEPT ![i] =
           [@ EXCEPT
               !.log = Append(@, Event("msg", Text("except"), inv[i].rel, Sent(ok))),
               !.pc = IF ok THEN "done" ELSE "raised"]]
    /\ UNCHANGED <<lvars, store, buttons, calls, lastCmd, envSteps, cmdRuns>>

\* The controller writes a release's status: the resource version moves
ControllerUpdate(r, conditions) ==
    /\ envSteps < MaxEnv
    /\ conditions # store[r].conditions
    /\ store' = [store EXCEPT ![r] = [@ EXCEPT !.conditions = conditions,
                                               !.rv = @ + 1]]
    /\ envSteps' = envSteps + 1
    /\ UNCHANGED <<lvars, inv, buttons, calls, lastCmd, cmdRuns>>

\* ---------------------------------------------------------------- commands
NoResult ==
    [state |-> "none", listOk |-> FALSE, releases |-> <<>>, rendered |-> <<>>]

\* A command handler's run: where it is (pc), the replies it is to send
\* (planned) and those delivered so far, the exception raised in its try
\* block (cause) and the one that left the handler (raised)
NoCmd ==
    [cmd |-> "none", user |-> 0, pc |-> "none", pods |-> <<>>,
     planned |-> <<>>, replies |-> <<>>, cause |-> "none", raised |-> "none"]

Reply(kind, rel, status, token) ==
    [kind |-> kind, rel |-> rel, status |-> status, token |-> token]

StatusText_StalledFirst(info) ==
    IF info.stalled THEN "STALLED"
    ELSE IF info.reconciling THEN "RECONCILING" ELSE "NOT READY"

\* "Status: RECONCILING" / "STALLED" / "NOT READY"
StatusText(info) ==
    IF info.reconciling THEN "RECONCILING"
    ELSE IF info.stalled THEN "STALLED" ELSE "NOT READY"

\* The reply_text calls of the loop over the unhealthy releases: a block per
\* release and, when it is not reconciling, a message with the Reconcile
\* button whose callback_data is the toggle token
RECURSIVE Render(_)
Render(releases) ==
    IF releases = <<>> THEN <<>>
    ELSE LET r   == Head(releases)
             rel == <<r.namespace, r.name>>
         IN  <<Reply("block", rel, StatusText(r), <<>>)>>
             \o (IF ~r.reconciling
                 THEN <<Reply("button", rel, "-", ToggleToken(r.namespace, r.name))>>
                 ELSE <<>>)
             \o Render(Tail(releases))

\* What check_releases_command sends for a result of the listing: the
\* "All HelmReleases are healthy" text when it is empty, the blocks and
\* buttons otherwise
Planned(releases) ==
    IF releases = <<>> THEN <<Reply("healthy", NoRel, "-", <<>>)>>
    ELSE Render(releases)

\* A handler's except clause calls ERROR_COUNTER.labels(type=...) without the
\* 'command' label the counter is declared with: labels() raises ValueError
\* before the error text is sent
ExceptClause == "ValueError"

\* restricted: a user outside ALLOWED_USERS is to be sent the refusal and
\* the handler is not called
Denied(cmd, u) ==
    [NoCmd EXCEPT !.cmd = cmd, !.user = u, !.pc = "sending",
                  !.planned = <<Reply("denied", NoRel, "-", <<>>)>>]

\* /checkreleases: restricted, then the listing; the replies are sent one
\* await at a time (CmdSend).  A listing that raises goes through the except
\* clause at once.
CheckReleases(u, listOk) ==
    /\ cmdRuns < MaxCmd
    /\ cmdRuns' = cmdRuns + 1
    /\ IF ~Authorized(u)
       THEN /\ lastCmd' = Denied("checkreleases", u)
            /\ UNCHANGED calls
       ELSE LET r == get_unhealthy_helmreleases(listOk, Items)
            IN  /\ lastCmd' =
                       IF r.raised
                       THEN [NoCmd EXCEPT !.cmd = "checkreleases", !.user = u,
                                          !.pc = "done",
                                          !.cause = "ApiException",
                                          !.raised = ExceptClause]
                       ELSE [NoCmd EXCEPT !.cmd = "checkreleases", !.user = u,
                                          !.pc = "sending",
                                          !.planned = Planned(r.releases)]
                /\ calls' = calls \cup
                       {[user |-> u, op |-> "list_releases", rel |-> NoRel]}
    /\ UNCHANGED <<lvars, store, inv, buttons, envSteps>>

\* A pod as list_pod_for_all_namespaces gives it
Pod(name, containers) == [name |-> name, containers |-> containers]
Container(name, image) == [name |-> name, image |-> image]

\* The labelled pods the cluster holds in the bot's runs
PodChoices ==
    { <<>>,
      <<Pod(<<"api-0">>, <<Container(<<"main-", "api">>, <<"repo/api", ":", "1.9.0", "-", "rc1">>)>>)>>,
      <<Pod(<<"job-0">>, <<Container(<<"sidecar">>, <<"repo/job">>)>>)>>,
      <<Pod(<<"job-0">>, <<Container(<<"sidecar">>, <<"repo/job">>)>>),
        Pod(<<"web-0">>, <<Container(<<"sidecar">>, <<"repo/envoy", ":", "1.2">>),
                           Container(<<"main-", "web">>, <<"repo/web">>),
                           Container(<<"main-", "b">>, <<"repo/b", ":", "2">>)>>)>> }

\* container.name.startswith("main-")
IsMain(container) == container.name # <<>> /\ container.name[1] = "main-"

\* The first container whose name starts with 'main-' (0: None)
MainContainer(pod) ==
    LET idx == {i \in 1..Len(pod.containers) : IsMain(pod.containers[i])}
    IN  IF idx = {} THEN None ELSE Min(idx)

\* image.split(":")[-1] if ":" in image else "latest"
ImageTag(image) ==
    IF \E i \in 1..Len(image) : image[i] = Sep
    THEN Split(image)[Len(Split(image))]
    ELSE <<"latest">>

\* tag.split('-')[0]
extract_version(tag) == SplitOn(tag, "-")[1]

\* The blocks apps_command adds to its response, one per pod with a main
\* container
RECURSIVE AppBlocks(_)
AppBlocks(pods) ==
    IF pods = <<>> THEN <<>>
    ELSE LET pod == Head(pods)
             m   == MainContainer(pod)
         IN  (IF m = None THEN <<>>
              ELSE LET tag == ImageTag(pod.containers[m].image)
                   IN  <<[pod |-> pod.name, tag |-> tag,
                          version |-> extract_version(tag)]>>)
             \o AppBlocks(Tail(pods))

\* /apps: restricted, then list_pod_for_all_namespaces; the one reply_text
\* with the whole response is sent by CmdSend
Apps(u, listOk, pods) ==
    /\ cmdRuns < MaxCmd
    /\ cmdRuns' = cmdRuns + 1
    /\ IF ~Authorized(u)
       THEN /\ lastCmd' = Denied("apps", u)
            /\ UNCHANGED calls
       ELSE /\ lastCmd' =
                   IF ~listOk
                   THEN [NoCmd EXCEPT !.cmd = "apps", !.user = u, !.pc = "done",
                                      !.cause = "ApiException",
                                      !.raised = ExceptClause]
                   ELSE [NoCmd EXCEPT
                           !.cmd = "apps", !.user = u, !.pc = "sending",
                           !.pods = pods,
                           !.planned =
                               IF pods = <<>>
                               THEN <<Reply("nopods", NoRel, "-", <<>>)>>
                               ELSE <<Reply("apps", NoRel, "-", AppBlocks(pods))>>]
            /\ calls' = calls \cup {[user |-> u, op |-> "list_pods", rel |-> NoRel]}
    /\ UNCHANGED <<lvars, store, inv, buttons, envSteps>>

\* /logs [app]: restricted, then the links of APP_LOGS_MAP in one reply; no
\* cluster call
Logs(u) ==
    /\ cmdRuns < MaxCmd
    /\ cmdRuns' = cmdRuns + 1
    /\ lastCmd' = IF ~Authorized(u) THEN Denied("logs", u)
                  ELSE [NoCmd EXCEPT !.cmd = "logs", !.user = u, !.pc = "sending",
                                     !.planned = <<Reply("links", NoRel, "-", <<>>)>>]
    /\ UNCHANGED <<lvars, store, inv, buttons, calls, envSteps>>

\* /start: restricted, then the greeting; no try block
Start(u) ==
    /\ cmdRuns < MaxCmd
    /\ cmdRuns' = cmdRuns + 1
    /\ lastCmd' = IF ~Authorized(u) THEN Denied("start", u)
                  ELSE [NoCmd EXCEPT !.cmd = "start", !.user = u, !.pc = "sending",
                                     !.planned = <<Reply("hello", NoRel, "-", <<>>)>>]
    /\ UNCHANGED <<lvars, store, inv, buttons, calls, envSteps>>

\* /help: restricted, then the list of commands; no try block
Help(u) ==
    /\ cmdRuns < MaxCmd
    /\ cmdRuns' = cmdRuns + 1
    /\ lastCmd' = IF ~Authorized(u) THEN Denied("help", u)
                  ELSE [NoCmd EXCEPT !.cmd = "help", !.user = u, !.pc = "sending",
                                     !.planned = <<Reply("help", NoRel, "-", <<>>)>>]
    /\ UNCHANGED <<lvars, store, inv, buttons, calls, envSteps>>

\* Telegram refuses a message whose text is empty: the response of /apps
\* when every pod was skipped
EmptyText(reply) == reply.kind = "apps" /\ reply.token = <<>>

\* One await update.message.reply_text(...) of the command under way.  The
\* refusal of restricted and the replies of /start and /help stand outside
\* any try block: their failure leaves the handler.  A failure inside the
\* try block goes to the except clause: that of /logs sends the error text
\* (CmdExcept), that of /checkreleases and /apps raises before it does.
CmdSend(ok) ==
    /\ lastCmd.pc = "sending"
    /\ LET next      == lastCmd.planned[Len(lastCmd.replies) + 1]
           delivered == ok /\ ~EmptyText(next)
           guarded   == next.kind # "denied" /\ lastCmd.cmd \notin {"start", "help"}
       IN  /\ lastCmd' =
                  IF delivered
                  THEN [lastCmd EXCEPT
                          !.replies = Append(@, next),
                          !.pc = IF Len(lastCmd.replies) + 1 = Len(lastCmd.planned)
                                 THEN "done" ELSE "sending"]
                  ELSE IF ~guarded
                  THEN [lastCmd EXCEPT !.pc = "done", !.raised = "TelegramError"]
                  ELSE IF lastCmd.cmd = "logs"
                  THEN [lastCmd EXCEPT !.pc = "except", !.cause = "TelegramError"]
                  ELSE [lastCmd EXCEPT
                          !.pc = "done",
                          !.cause = IF ok THEN "BadRequest" ELSE "TelegramError",
                          !.raised = ExceptClause]
           /\ buttons' = IF delivered /\ next.kind = "button"
                         THEN buttons \cup {next.token} ELSE buttons
    /\ UNCHANGED <<lvars, store, inv, calls, envSteps, cmdRuns>>

\* The except clause of logs_command: both labels are given, so the error
\* text is sent; when this send fails too the exception leaves the handler
CmdExcept(ok) ==
    /\ lastCmd.pc = "except"
    /\ lastCmd' = IF ok
                  THEN [lastCmd EXCEPT !.pc = "done",
                                       !.replies = Append(@, Reply("error", NoRel, "-", <<>>))]
                  ELSE [lastCmd EXCEPT !.pc = "done", !.raised = "TelegramError"]
    /\ UNCHANGED <<lvars, store, inv, buttons, calls, envSteps, cmdRuns>>

\* ------------------------------------------------------------ specification
\* Callback data that reaches the handler without a button of this run: a
\* truncated toggle token and a logs token
OtherTokens ==
    { <<"toggle", Sep, "ns1">>,
      <<"logs", Sep, "api">> }

Clickable == buttons \cup OtherTokens

InitBot ==
    /\ store \in [Rels -> [suspend : BOOLEAN, rv : {1}, conditions : {NotReadyConds}]]
    /\ inv = [i \in InvIds |-> Idle]
    /\ buttons = {}
    /\ calls = {}
    /\ lastCmd = NoCmd
    /\ envSteps = 0
    /\ cmdRuns = 0

Init ==
    /\ InitBot
    /\ lst = <<>>
    /\ lres = NoResult
    /\ arg = <<>>
    /\ ret = <<>>

\* Application.builder().token(TOKEN).build() leaves concurrent_updates off
\* and the handlers are blocking: the application awaits one handler before
\* it takes the next update
NoneRunning ==
    /\ \A j \in DOMAIN inv : inv[j].pc \in {"idle", "done", "raised", "denied"}
    /\ lastCmd.pc \in {"none", "done"}

Next ==
    \/ \E i \in DOMAIN inv, u \in Users, d \in Clickable, ok \in BOOLEAN :
           NoneRunning /\ Click(i, u, d, ok)
    \/ \E i \in DOMAIN inv, ok \in BOOLEAN : Progress(i, ok)
    \/ \E i \in DOMAIN inv, ok \in BOOLEAN : SuspendGet(i, ok)
    \/ \E i \in DOMAIN inv, net \in Net : SuspendPatch(i, net)
    \/ \E i \in DOMAIN inv, ok \in BOOLEAN : UnsuspendGet(i, ok)
    \/ \E i \in DOMAIN inv, net \in Net : UnsuspendPatch(i, net)
    \/ \E i \in DOMAIN inv, ok \in BOOLEAN : Report(i, ok)
    \/ \E i \in DOMAIN inv, ok \in BOOLEAN : LogsReply(i, ok)
    \/ \E i \in DOMAIN inv, ok \in BOOLEAN : Except(i, ok)
    \/ \E r \in Rels, c \in StatusChoices : ControllerUpdate(r, c)
    \/ \E u \in Users, ok \in BOOLEAN : NoneRunning /\ CheckReleases(u, ok)
    \/ \E u \in Users, ok \in BOOLEAN, pods \in PodChoices :
           NoneRunning /\ Apps(u, ok, pods)
    \/ \E u \in Users : NoneRunning /\ Logs(u)
    \/ \E u \in Users : NoneRunning /\ Start(u)
    \/ \E u \in Users : NoneRunning /\ Help(u)
    \/ \E ok \in BOOLEAN : CmdSend(ok)
    \/ \E ok \in BOOLEAN : CmdExcept(ok)

Spec == Init /\ [][Next]_vars

\* -------------------------------------- concurrent dispatch, nothing failing
\* The runtime dispatches the callbacks concurrently (concurrent_updates on,
\* or several replicas): the invocations interleave step by step.  Every send
\* and every cluster call goes through unless the store refuses a stale
\* write; the Reconcile buttons of an earlier listing are in the chat, and
\* nobody else writes the releases.
InitQuiet ==
    /\ store \in [Rels -> [suspend : BOOLEAN, rv : {1}, conditions : {NotReadyConds}]]
    /\ inv = [i \in InvIds |-> Idle]
    /\ buttons = {ToggleToken(r[1], r[2]) : r \in Rels}
    /\ calls = {}
    /\ lastCmd = NoCmd
    /\ envSteps = 0
    /\ cmdRuns = 0
    /\ lst = <<>>
    /\ lres = NoResult
    /\ arg = <<>>
    /\ ret = <<>>

NextQuiet ==
    \/ \E i \in DOMAIN inv, u \in ALLOWED_USERS, d \in buttons : Click(i, u, d, TRUE)
    \/ \E i \in DOMAIN inv : Progress(i, TRUE)
    \/ \E i \in DOMAIN inv : SuspendGet(i, TRUE)
    \/ \E i \in DOMAIN inv : SuspendPatch(i, "ok")
    \/ \E i \in DOMAIN inv : UnsuspendGet(i, TRUE)
    \/ \E i \in DOMAIN inv : UnsuspendPatch(i, "ok")
    \/ \E i \in DOMAIN inv : Report(i, TRUE)

SpecQuiet == InitQuiet /\ [][NextQuiet]_vars

\* ------------------------------------------------- the listing, on its own
\* The i-th release of a listing: the cluster lists the releases in an order
\* that is not the alphabetical one
RelName(i) == <<"rel", ToString(MaxList + 1 - i)>>

\* The condition entries a listing carries in all
RECURSIVE TotalConds(_)
TotalConds(items) ==
    IF items = <<>> THEN 0
    ELSE Len(Head(items).conditions) + TotalConds(Tail(items))

\* The bot at rest while the listing or a helper is exercised on its own
InitHelper ==
    /\ lst = <<>>
    /\ lres = NoResult
    /\ store = [r \in Rels |-> [suspend |-> FALSE, rv |-> 1,
                                 conditions |-> NotReadyConds]]
    /\ inv = [i \in InvIds |-> Idle]
    /\ buttons = {}
    /\ calls = {}
    /\ lastCmd = NoCmd
    /\ envSteps = 0
    /\ cmdRuns = 0

InitList ==
    /\ InitHelper
    /\ arg = <<>>
    /\ ret = <<>>

\* The cluster gains a release, with no status yet
AddRelease ==
    /\ lres.state = "none"
    /\ Len(lst) < MaxList
    /\ lst' = Append(lst, Release(<<"ns">>, RelName(Len(lst) + 1), <<>>))
    /\ UNCHANGED <<lres, bvars>>

\* The newest release gains a condition entry
AddCondition ==
    /\ lres.state = "none"
    /\ lst # <<>>
    /\ TotalConds(lst) < MaxTotalConds
    /\ \E c \in Conds :
         lst' = [lst EXCEPT ![Len(lst)].conditions = Append(@, c)]
    /\ UNCHANGED <<lres, bvars>>

\* One call of get_unhealthy_helmreleases, the list call answering or
\* failing, and the replies check_releases_command makes of its result
ListUnhealthy ==
    /\ lres.state = "none"
    /\ \E listOk \in BOOLEAN :
         LET r == get_unhealthy_helmreleases(listOk, lst)
         IN  lres' = [state |-> IF r.raised THEN "raised" ELSE "returned",
                      listOk |-> listOk, releases |-> r.releases,
                      rendered |-> IF r.raised THEN <<>> ELSE Planned(r.releases)]
    /\ UNCHANGED <<lst, bvars>>

NextList == AddRelease \/ AddCondition \/ ListUnhealthy

SpecList == InitList /\ [][NextList]_vars

\* ------------------------------------------- the helpers, on their own
\* Namespaces and release names: Kubernetes names, lower-case alphanumerics
\* with '-' and '.', never ':'; among them the words the token format uses
NameChoices ==
    { <<"ns1">>, <<"web">>, <<"db">>, <<"logs">>, <<"toggle">>,
      <<"kube", "-", "system">>, <<"a", ".", "b">> }

NoToken == [step |-> "none", token |-> <<>>, action |-> "", rel |-> NoRel]

InitToken ==
    /\ InitHelper
    /\ arg \in [namespace : NameChoices, name : NameChoices]
    /\ ret = NoToken

\* callback_data=f"toggle:{release['namespace']}:{release['name']}"
EncodeToken ==
    /\ ret.step = "none"
    /\ ret' = [ret EXCEPT !.step = "encoded",
                          !.token = ToggleToken(arg.namespace, arg.name)]
    /\ UNCHANGED <<arg, hvars>>

\* parts = query.data.split(":") and the dispatch on parts[0], len(parts)
DecodeToken ==
    /\ ret.step = "encoded"
    /\ ret' = [ret EXCEPT !.step = "decoded",
                          !.action = Dispatch(Split(ret.token)),
                          !.rel = Target(Split(ret.token))]
    /\ UNCHANGED <<arg, hvars>>

NextToken == EncodeToken \/ DecodeToken

SpecToken == InitToken /\ [][NextToken]_vars

\* datetime.utcnow(), in seconds, when calculate_age is called
Now == 180000

\* f"{n}d", f"{n}h", f"{n}m" and "Unknown"
AgeText(n, unit) == [n |-> n, unit |-> unit]

calculate_age_NoDays(creation_timestamp) ==
    IF creation_timestamp = None THEN AgeText(0, "Unknown")
    ELSE LET age     == Now - creation_timestamp
             seconds == age % 86400
             hours   == seconds \div 3600
             minutes == (seconds % 3600) \div 60
         IN  IF hours > 0 THEN AgeText(hours, "h") ELSE AgeText(minutes, "m")

\* calculate_age: age = datetime.utcnow() - creation_time is a timedelta,
\* kept as days (floor of the whole days, negative for a timestamp in the
\* future) and seconds (0 <= seconds < 86400)
calculate_age(creation_timestamp) ==
    IF creation_timestamp = None THEN AgeText(0, "Unknown")
    ELSE LET age     == Now - creation_timestamp
             days    == age \div 86400
             seconds == age % 86400
             hours   == seconds \div 3600
             minutes == (seconds % 3600) \div 60
         IN  IF days > 0 THEN AgeText(days, "d")
             ELSE IF hours > 0 THEN AgeText(hours, "h")
             ELSE AgeText(minutes, "m")

\* The creation timestamps a pod carries: none, or a second from the epoch
\* on, up to some that lie after now
Timestamps == {None} \cup (1..(Now + 3700))

NoAge == [step |-> "none", out |-> AgeText(0, "")]

InitAge ==
    /\ InitHelper
    /\ arg \in Timestamps
    /\ ret = NoAge

\* calculate_age(pod.metadata.creation_timestamp)
CalculateAge ==
    /\ ret.step = "none"
    /\ ret' = [step |-> "done", out |-> calculate_age(arg)]
    /\ UNCHANGED <<arg, hvars>>

NextAge == CalculateAge

SpecAge == InitAge /\ [][NextAge]_vars

\* ------------------------------------------------------------------ claims
\* The indices of an invocation's events of one kind (and one argument)
Gets(i) == {k \in 1..Len(inv[i].log) : inv[i].log[k].k = "get"}
Patches(i, v) ==
    {k \in 1..Len(inv[i].log) : inv[i].log[k].k = "patch" /\ inv[i].log[k].what = v}
Msgs(i, text) ==
    {k \in 1..Len(inv[i].log) : inv[i].log[k].k = "msg" /\ inv[i].log[k].what = text}
ClusterEvents(i) ==
    {k \in 1..Len(inv[i].log) : inv[i].log[k].k \in {"get", "patch"}}

\* The handler of invocation i is past its final edit_message_text
Reported(i) == inv[i].pc \in {"done", "except", "raised"}

\* C1: when the suspend step fails (its read or its write raises) the
\* invocation issues no unsuspend read or write (its only read is the suspend
\* step's, it writes no spec.suspend=false), the unsuspend step is never
\* entered, and what it reports is the suspend failure: the "Failed to
\* suspend" text, and neither the progress text of the unsuspend step nor
\* another outcome.
C1_SuspendFailureStops ==
    \A i \in DOMAIN inv :
        inv[i].sus = "failed" =>
            /\ Cardinality(Gets(i)) = 1
            /\ Patches(i, "false") = {}
            /\ inv[i].unsus = "none"
            /\ inv[i].pc \in {"reportSusFail", "done", "except", "raised"}
            /\ Msgs(i, "Unsuspending") = {}
            /\ Msgs(i, "Started") = {}
            /\ Msgs(i, "FailedUnsuspend") = {}
            /\ Reported(i) => Msgs(i, "FailedSuspend") # {}

\* The write of spec.suspend=true was refused, and the failure was reported
C1_Witness ==
    \E i \in DOMAIN inv :
        /\ inv[i].sus = "failed"
        /\ inv[i].pc = "done"
        /\ \E k \in Patches(i, "true") : inv[i].log[k].res # "ok"
        /\ inv[i].log[Len(inv[i].log)] = Event("msg", "FailedSuspend", inv[i].rel, "ok")

\* C2: when the suspend step succeeded and the unsuspend step failed, the
\* outcome is (suspended, not unsuspended), what the invocation reports is the
\* "Failed to unsuspend" text and never the text of a suspend failure or of a
\* success, and it writes nothing more: one write of true that went through,
\* at most one write of false and that one refused, nothing after it on the
\* cluster.
C2_UnsuspendFailureReported ==
    \A i \in DOMAIN inv :
        (inv[i].sus = "ok" /\ inv[i].unsus = "failed") =>
            /\ inv[i].pc \in {"reportUnsFail", "done", "except", "raised"}
            /\ Msgs(i, "FailedSuspend") = {}
            /\ Msgs(i, "Started") = {}
            /\ Reported(i) => Msgs(i, "FailedUnsuspend") # {}
            /\ Cardinality(Patches(i, "true")) = 1
            /\ Cardinality(Patches(i, "false")) <= 1
            /\ \A k \in Patches(i, "false") : inv[i].log[k].res # "ok"
            /\ Cardinality(Gets(i)) = 2
            /\ \A k \in ClusterEvents(i) : k <= 6

\* The write of spec.suspend=false was refused after the suspend went through
C2_Witness ==
    \E i \in DOMAIN inv :
        /\ inv[i].sus = "ok"
        /\ inv[i].unsus = "failed"
        /\ inv[i].pc = "done"
        /\ \E k \in Patches(i, "false") : inv[i].log[k].res = "Conflict"
        /\ inv[i].log[Len(inv[i].log)] = Event("msg", "FailedUnsuspend", inv[i].rel, "ok")

\* The events of a reconcile of release rel that succeeds, in order
SuccessLog(rel) ==
    << Event("msg", "Suspending", rel, "ok"),
       Event("get", "-", rel, "ok"),
       Event("patch", "true", rel, "ok"),
       Event("msg", "Unsuspending", rel, "ok"),
       Event("get", "-", rel, "ok"),
       Event("patch", "false", rel, "ok") >>

\* C3: an invocation whose two steps succeeded has made exactly these events
\* in this order: the "Suspending" text, a read, a write of true, the
\* "Unsuspending" text, a read, a write of false, and then the send of the
\* success text, after which it is done; so the last value it wrote is false,
\* whatever the flag was before.
C3_SuccessOrder ==
    \A i \in DOMAIN inv :
        (inv[i].sus = "ok" /\ inv[i].unsus = "ok" /\ Reported(i)) =>
            /\ Len(inv[i].log) >= 7
            /\ SubSeq(inv[i].log, 1, 6) = SuccessLog(inv[i].rel)
            /\ inv[i].log[7].k = "msg" /\ inv[i].log[7].what = "Started"
            /\ inv[i].log[7].res = "ok" => (Len(inv[i].log) = 7 /\ inv[i].pc = "done")

\* A reconcile that succeeded on a release that was suspended before it
C3_Witness ==
    \E i \in DOMAIN inv :
        /\ inv[i].pc = "done"
        /\ inv[i].log = SuccessLog(inv[i].rel)
                            \o <<Event("msg", "Started", inv[i].rel, "ok")>>
        /\ store[inv[i].rel].rv = 2
        /\ ~store[inv[i].rel].suspend

\* C4: a toggle for a release the listing flags as reconciling when the
\* callback arrives is refused: the invocation makes no cluster call.
C4_ReconcilingRefused ==
    \A i \in DOMAIN inv : inv[i].recAtClick => ClusterEvents(i) = {}

\* C5: an invocation attempts at most one write of true and one of false,
\* and a write that is refused ends the step: no read or write follows it,
\* and what the invocation then reports is a failure.
C5_NoRetry ==
    \A i \in DOMAIN inv :
        /\ Cardinality(Patches(i, "true")) <= 1
        /\ Cardinality(Patches(i, "false")) <= 1
        /\ \A k \in ClusterEvents(i) :
             (inv[i].log[k].k = "patch" /\ inv[i].log[k].res # "ok") =>
                 /\ \A m \in ClusterEvents(i) : m <= k
                 /\ Msgs(i, "Started") = {}
                 /\ inv[i].pc \in {"reportSusFail", "reportUnsFail",
                                   "done", "except", "raised"}
                 /\ Reported(i) =>
                      Msgs(i, "FailedSuspend") \cup Msgs(i, "FailedUnsuspend") # {}

\* The store refused the write of true for a resource-version conflict and
\* the invocation ended by reporting the failure
C5_Witness ==
    \E i \in DOMAIN inv :
        /\ inv[i].pc = "done"
        /\ \E k \in Patches(i, "true") : inv[i].log[k].res = "Conflict"
        /\ inv[i].log[Len(inv[i].log)] = Event("msg", "FailedSuspend", inv[i].rel, "ok")

\* Invocation i has started a toggle and no other invocation has one on the
\* same release
AloneOnRelease(i) ==
    /\ inv[i].rel \in Rels
    /\ \A j \in DOMAIN inv : j # i => inv[j].rel # inv[i].rel

\* C6: with concurrent dispatch and nothing failing, an invocation that is
\* alone on its release reads and writes that release only and, however the
\* invocations on other releases interleave with it, ends as it does when run
\* alone: both steps succeed, its events are those of a success, and the
\* release is left with spec.suspend false; a release no invocation targets
\* is never written.
C6_DifferentReleasesIndependent ==
    /\ \A i \in DOMAIN inv :
         AloneOnRelease(i) =>
             /\ \A k \in 1..Len(inv[i].log) : inv[i].log[k].rel = inv[i].rel
             /\ inv[i].log \in
                  {SubSeq(SuccessLog(inv[i].rel)
                              \o <<Event("msg", "Started", inv[i].rel, "ok")>>, 1, n) :
                   n \in 0..7}
             /\ inv[i].pc = "done" =>
                  /\ inv[i].sus = "ok" /\ inv[i].unsus = "ok"
                  /\ Len(inv[i].log) = 7
                  /\ ~store[inv[i].rel].suspend
    /\ \A r \in Rels :
         (\A i \in DOMAIN inv : inv[i].rel # r) => store[r].rv = 1

\* Two invocations on different releases are both done
C6_Witness ==
    \E i, j \in DOMAIN inv :
        /\ inv[i].rel = R1 /\ inv[j].rel = R2
        /\ inv[i].pc = "done" /\ inv[j].pc = "done"

\* C7: every cluster call is made for a user of the allowed-users list; an
\* invocation for any other user never enters the handler body, and a
\* command of such a user is answered with the refusal only.
C7_UnauthorizedNoClusterCall ==
    /\ \A c \in calls : c.user \in ALLOWED_USERS
    /\ \A i \in DOMAIN inv :
         (inv[i].pc # "idle" /\ inv[i].user \notin ALLOWED_USERS) =>
             inv[i].pc \in {"denied", "raised"} /\ inv[i].log = <<>>
    /\ (lastCmd.cmd # "none" /\ lastCmd.user \notin ALLOWED_USERS) =>
         \A k \in 1..Len(lastCmd.replies) : lastCmd.replies[k].kind = "denied"

\* A user outside the list clicked the Reconcile button that a listing made
\* for an allowed user had sent, and was refused
C7_Witness ==
    /\ \E i \in DOMAIN inv :
         /\ inv[i].pc = "denied"
         /\ inv[i].user \notin ALLOWED_USERS
         /\ Dispatch(Split(inv[i].data)) = "suspending"
    /\ lastCmd.cmd = "checkreleases"
    /\ calls # {}

\* The names of the entries of a sequence of releases or infos
Names(items) == {items[i].name : i \in 1..Len(items)}

\* The Ready condition of a release is the entry of type Ready the lookup
\* finds: the first one.  Its status, or Missing when there is none.
FirstReadyStatus(conditions) ==
    LET idx == {i \in 1..Len(conditions) : conditions[i].type = "Ready"}
    IN  IF idx = {} THEN Missing ELSE conditions[Min(idx)].status

\* C8: whenever the listing is returned, the unhealthy result holds exactly
\* the releases whose Ready condition has a status other than "True" ("False"
\* or "Unknown"), each once; a release whose Ready condition is "True" and a
\* release with no Ready condition are not in it.
C8_UnhealthyExactlyNotReady ==
    lres.state = "returned" =>
        /\ \A i \in 1..Len(lst) :
             lst[i].name \in Names(lres.releases)
                 <=> FirstReadyStatus(lst[i].conditions) \in {"False", "Unknown"}
        /\ Names(lres.releases) \subseteq Names(lst)
        /\ Cardinality(Names(lres.releases)) = Len(lres.releases)

\* A listing of two releases, one with Ready "Unknown" that is reported and
\* one with Ready "True" that is not
C8_Witness ==
    /\ lres.state = "returned"
    /\ Len(lst) = 2
    /\ Len(lres.releases) = 1
    /\ \E i \in 1..2 : FirstReadyStatus(lst[i].conditions) = "Unknown"
    /\ \E i \in 1..2 : FirstReadyStatus(lst[i].conditions) = "True"

\* The info the result holds for the i-th release of the listing
InfoOf(i) ==
    CHOOSE x \in {lres.releases[j] : j \in 1..Len(lres.releases)} :
        x.name = lst[i].name

\* C9: for every release reported not ready, reconciling is true iff some
\* entry anywhere in its condition list has type "Reconciling", status "True"
\* and reason "Progressing", and stalled is true iff some entry has type
\* "Stalled" and status "True".
C9_ReconcilingIffExists ==
    lres.state = "returned" =>
        \A i \in 1..Len(lst) :
            lst[i].name \in Names(lres.releases) =>
                LET cs == lst[i].conditions
                IN  /\ InfoOf(i).reconciling
                         <=> \E k \in 1..Len(cs) : /\ cs[k].type = "Reconciling"
                                                   /\ cs[k].status = "True"
                                                   /\ cs[k].reason = "Progressing"
                    /\ InfoOf(i).stalled
                         <=> \E k \in 1..Len(cs) : /\ cs[k].type = "Stalled"
                                                   /\ cs[k].status = "True"

\* An entry with its type, status or reason missing
Malformed(c) == ~HasKey(c.type) \/ ~HasKey(c.status) \/ ~HasKey(c.reason)

RECURSIVE WellFormedOnly(_)
WellFormedOnly(conditions) ==
    IF conditions = <<>> THEN <<>>
    ELSE (IF Malformed(Head(conditions)) THEN <<>> ELSE <<Head(conditions)>>)
         \o WellFormedOnly(Tail(conditions))

\* C10: when the list call answers, the listing completes whatever entries
\* are malformed, and its result is the one the same listing gives with the
\* malformed entries left out.
C10_MalformedAsAbsent ==
    (lres.state # "none" /\ lres.listOk) =>
        /\ lres.state = "returned"
        /\ lres.releases =
             get_unhealthy_helmreleases(TRUE,
                 [i \in 1..Len(lst) |->
                     [lst[i] EXCEPT !.conditions = WellFormedOnly(@)]]).releases

\* C11: when the cluster listing call of /checkreleases or /apps fails, the
\* user is sent exactly one message, the error text; no release block, button
\* or pod block of that run is sent; the listing is called once; and no
\* exception leaves the handler.
C11_ListingFailureReported ==
    (lastCmd.cmd \in {"checkreleases", "apps"} /\ lastCmd.cause = "ApiException") =>
        /\ Len(lastCmd.replies) = 1
        /\ lastCmd.replies[1].kind = "error"
        /\ lastCmd.raised = "none"

\* Where the listing holds the release of that name
PosIn(name) == CHOOSE i \in 1..Len(lst) : lst[i].name = name

\* The releases of the blocks among some replies, in the order of the replies
BlockRels(replies) ==
    LET IsBlock(x) == x.kind = "block"
        blocks == SelectSeq(replies, IsBlock)
    IN  [k \in 1..Len(blocks) |-> blocks[k].rel]

\* C12: the unhealthy releases are returned in the relative order in which the
\* listing holds them (the result is a subsequence of the listing), and the
\* blocks sent to the chat follow the order of the result.
C12_ListingOrderKept ==
    lres.state = "returned" =>
        /\ \A j, k \in 1..Len(lres.releases) :
             j < k => PosIn(lres.releases[j].name) < PosIn(lres.releases[k].name)
        /\ BlockRels(lres.rendered) =
             [k \in 1..Len(lres.releases) |->
                 <<lres.releases[k].namespace, lres.releases[k].name>>]

\* Two unhealthy releases, listed in an order that is not alphabetical, are
\* returned and rendered
C12_Witness ==
    /\ lres.state = "returned"
    /\ Len(lres.releases) = 2
    /\ lres.releases[1].name = <<"rel", "2">>
    /\ lres.releases[2].name = <<"rel", "1">>
    /\ Len(BlockRels(lres.rendered)) = 2

\* The replies of one kind that are about release rel
RepliesFor(replies, kind, rel) ==
    {k \in 1..Len(replies) : replies[k].kind = kind /\ replies[k].rel = rel}

\* C13: every unhealthy release of the result is rendered by exactly one
\* block, whose status is RECONCILING when the release is flagged reconciling
\* (stalled or not), else STALLED when it is flagged stalled, else NOT READY;
\* and a Reconcile button, carrying the toggle token of the release's
\* namespace and name, is sent for it iff it is not flagged reconciling.
C13_StatusPrecedence ==
    lres.state = "returned" =>
        /\ \A k \in 1..Len(lres.releases) :
             LET r   == lres.releases[k]
                 rel == <<r.namespace, r.name>>
                 bl  == RepliesFor(lres.rendered, "block", rel)
                 bt  == RepliesFor(lres.rendered, "button", rel)
             IN  /\ Cardinality(bl) = 1
                 /\ \A b \in bl :
                      lres.rendered[b].status =
                          (CASE r.reconciling -> "RECONCILING"
                             [] ~r.reconciling /\ r.stalled -> "STALLED"
                             [] OTHER -> "NOT READY")
                 /\ Cardinality(bt) = (IF r.reconciling THEN 0 ELSE 1)
                 /\ \A b \in bt :
                      lres.rendered[b].token =
                          <<"toggle", ":">> \o r.namespace \o <<":">> \o r.name
        /\ \A b \in 1..Len(lres.rendered) :
             \/ lres.releases = <<>> /\ lres.rendered[b].kind = "healthy"
             \/ \E k \in 1..Len(lres.releases) :
                    lres.rendered[b].rel =
                        <<lres.releases[k].namespace, lres.releases[k].name>>

\* A release that is stalled and reconciling is rendered RECONCILING, with no
\* button
C13_Witness ==
    /\ lres.state = "returned"
    /\ \E k \in 1..Len(lres.releases) :
         LET r   == lres.releases[k]
             rel == <<r.namespace, r.name>>
         IN  /\ r.stalled /\ r.reconciling
             /\ \E b \in RepliesFor(lres.rendered, "block", rel) :
                    lres.rendered[b].status = "RECONCILING"
             /\ RepliesFor(lres.rendered, "button", rel) = {}

\* C14: the token made for a namespace and a name decodes to the toggle
\* action on exactly that namespace and name, whatever atoms ('-', '.', the
\* words "toggle" and "logs") the two names hold.
C14_TokenRoundTrip ==
    ret.step = "decoded" =>
        /\ ret.action = "suspending"
        /\ ret.rel = <<arg.namespace, arg.name>>

\* A token for names of several atoms, with namespace and name different,
\* was encoded and decoded
C14_Witness ==
    /\ ret.step = "decoded"
    /\ arg.namespace = <<"kube", "-", "system">>
    /\ arg.name = <<"toggle">>
    /\ ret.rel[2] = <<"toggle">>

\* Callback data that is neither a toggle token of three fields nor a logs
\* token of two
MalformedToken(data) ==
    LET parts == Split(data)
    IN  ~ \/ parts[1] = <<"toggle">> /\ Len(parts) = 3
          \/ parts[1] = <<"logs">> /\ Len(parts) = 2

\* C15: an allowed user's callback whose data is malformed ends with the
\* error reported to the chat and without any cluster read or write.
C15_MalformedTokenReported ==
    \A i \in DOMAIN inv :
        (inv[i].pc = "done" /\ inv[i].user \in ALLOWED_USERS
                            /\ MalformedToken(inv[i].data)) =>
            /\ Msgs(i, "Error") # {}
            /\ ClusterEvents(i) = {}

\* C16: for an age of a >= 0 whole seconds the text is (a div 86400) "d" when
\* a >= 86400, else (a div 3600) "h" when a >= 3600, else (a div 60) "m": one
\* number and one unit; with no timestamp it is "Unknown".
C16_AgeCoarsestUnit ==
    ret.step = "done" =>
        IF arg = None THEN ret.out.unit = "Unknown"
        ELSE LET a == Now - arg
             IN  a >= 0 =>
                   /\ a >= 86400 => ret.out = [n |-> a \div 86400, unit |-> "d"]
                   /\ (a < 86400 /\ a >= 3600) =>
                        ret.out = [n |-> a \div 3600, unit |-> "h"]
                   /\ a < 3600 => ret.out = [n |-> a \div 60, unit |-> "m"]

\* A timestamp two days and some hours in the past is rendered "2d"
C16_Witness ==
    /\ ret.step = "done"
    /\ arg # None
    /\ Now - arg = 2 * 86400 + 4000
    /\ ret.out = [n |-> 2, unit |-> "d"]

\* The pods of a list that have a container whose name starts with 'main-'
WithMain(pods) ==
    {k \in 1..Len(pods) :
        \E c \in 1..Len(pods[k].containers) :
            pods[k].containers[c].name # <<>> /\ pods[k].containers[c].name[1] = "main-"}

\* C17: when the pod listing answers with some pods and the reply can be
\* delivered, /apps does not fail, whether or not some or all of the pods lack
\* a 'main-' container: it sends one reply with one block per pod that has
\* one, whose version holds no '-' and is the tag up to its first '-'.
C17_SkippedPodsNoFailure ==
    (/\ lastCmd.cmd = "apps"
     /\ lastCmd.pc = "done"
     /\ lastCmd.user \in ALLOWED_USERS
     /\ lastCmd.pods # <<>>
     /\ lastCmd.cause \notin {"ApiException", "TelegramError"}) =>
        /\ lastCmd.raised = "none"
        /\ Len(lastCmd.replies) = 1
        /\ lastCmd.replies[1].kind = "apps"
        /\ Len(lastCmd.replies[1].token) = Cardinality(WithMain(lastCmd.pods))
        /\ \A k \in 1..Len(lastCmd.replies[1].token) :
             LET b == lastCmd.replies[1].token[k]
             IN  /\ \A j \in 1..Len(b.version) : b.version[j] # "-"
                 /\ b.version = SubSeq(b.tag, 1, Len(b.version))
                 /\ Len(b.version) < Len(b.tag) => b.tag[Len(b.version) + 1] = "-"

\* C18: an invocation whose suspend step succeeded does not finish (return or
\* raise) before it has attempted the unsuspend step: the read of the
\* unsuspend step is among its events.
C18_UnsuspendAlwaysAttempted ==
    \A i \in DOMAIN inv :
        (inv[i].sus = "ok" /\ inv[i].pc \in {"done", "raised"}) =>
            Cardinality(Gets(i)) = 2

\* C19: with concurrent dispatch, no cluster call or send failing but for the
\* store refusing a stale write, and no other writer: when every invocation on
\* a release has finished, the release's spec.suspend is false.
C19_RacingReconcilesEndUnsuspended ==
    \A r \in Rels :
        (/\ \E i \in DOMAIN inv : inv[i].rel = r
         /\ \A i \in DOMAIN inv : inv[i].rel = r => inv[i].pc = "done") =>
            ~store[r].suspend

\* Two invocations raced on one release; the store refused a write of one of
\* them; both are done
C19_Witness ==
    \E i, j \in DOMAIN inv :
        /\ i # j
        /\ inv[i].rel = inv[j].rel /\ inv[i].rel \in Rels
        /\ inv[i].pc = "done" /\ inv[j].pc = "done"
        /\ \E k \in ClusterEvents(j) : inv[j].log[k].res = "Conflict"
        /\ inv[i].sus = "ok" /\ inv[i].unsus = "ok"

\* C20: whenever an invocation reports the suspend failure, for a failure
\* of the read or of the write of the suspend step, the release's
\* spec.suspend is the value it had when the invocation started (no later
\* invocation having started, the invocation is the only one that can have
\* changed it).
C20_SuspendFailureLeavesState ==
    \A i \in DOMAIN inv :
        (/\ inv[i].pc = "reportSusFail" \/ Msgs(i, "FailedSuspend") # {}
         /\ inv[i].rel \in Rels
         /\ \A j \in DOMAIN inv : j > i => inv[j].pc = "idle") =>
            store[inv[i].rel].suspend = inv[i].start
====
